---- MODULE Spec2Model ----
(***************************************************************************)
(* Server Guardian (src/server_guardian.py): one control loop that limits  *)
(* concurrent connections, shapes bandwidth under sustained load and shuts *)
(* the host down when a daily traffic or daily unique-address limit is     *)
(* exceeded.                                                               *)
(*                                                                         *)
(* Byte quantities are counted in units of BytesPerUnit (512 KiB), so that *)
(* the 100 GB ceiling fits a 32-bit integer; the sampled counter values    *)
(* are multiples of that unit, for which both conversions of the source    *)
(* (bytes -> Mbps, bytes -> GB) are exact.                                 *)
(* Dates are day numbers, times are whole seconds since process start.     *)
(***************************************************************************)
EXTENDS Integers, Sequences, FiniteSets

\* ---------------------------------------------------------------- configuration
MAX_CONCURRENT_IPS == 8
MAX_SPEED_LIMIT == 150
THROTTLE_SPEED_LIMIT == 60
TRIGGER_SPEED == 100
MAX_DAILY_TRAFFIC == 100

\* The source sets MAX_DAILY_UNIQUE_IPS = 15, TRIGGER_DURATION = 10 and
\* PUNISH_DURATION = 900.  The model takes smaller values of the same three
\* parameters; every formula below is stated in terms of the names.
MAX_DAILY_UNIQUE_IPS == 2
TRIGGER_DURATION == 2
PUNISH_DURATION == 3

\* ---------------------------------------------------------------- bounds of the model
MaxTime == 6             \* seconds of the run explored
MaxDays == 1             \* calendar date changes explored
MaxCalls == 30           \* calls of init_iptables explored on one rule table

BytesPerUnit == 512 * 1024
UnitsPerGB == (1024 * 1024 * 1024) \div BytesPerUnit
DailyCeiling == MAX_DAILY_TRAFFIC * UnitsPerGB
\* smallest delta (in units) whose rate exceeds TRIGGER_SPEED
OverStep == ((TRIGGER_SPEED * 1024 * 1024) \div (8 * BytesPerUnit)) + 1

\* Values get_current_traffic can return: 0 (unreadable counters, or a fresh
\* interface), a ladder of values OverStep apart, one value exactly at the
\* trigger rate above 0, and two values around the daily ceiling.
Readings ==
    {k * OverStep : k \in 0..TRIGGER_DURATION}
        \cup {OverStep - 1, DailyCeiling, DailyCeiling + 1}

\* Values of the baseline sample taken before the loop: a fresh interface, or
\* one that has already counted traffic.
Baselines == {0, OverStep}

\* Lists get_active_ips can return, addresses being numbered from 1: empty (also
\* on failure), one address twice, two addresses.
AddressLists ==
    {<<>>} \cup {<<a, a>> : a \in 1..(MAX_DAILY_UNIQUE_IPS - 1)}
        \cup {<<MAX_DAILY_UNIQUE_IPS, MAX_DAILY_UNIQUE_IPS + 1>>}

\* one run of the netstat pipeline of get_active_ips: what it lists, and whether
\* an interrupt is delivered while it runs
NetstatRuns == {<<l, FALSE>> : l \in AddressLists} \cup {<<<<>>, TRUE>>}

\* the root qdisc of the interface: none installed
NoQdisc == {}

\* Seconds one iteration can take: time.sleep(1) alone, or with a second lost to
\* the sampling commands or to scheduling.
SleepTimes == {1, 2}

VARIABLES
    pc,                  \* "init", "constructed", "top", "sleep", "exited"
    exit_code,           \* status of the process once pc = "exited"
    euid,
    \* fields of ServerGuardian
    punish_end_time, high_load_duration, current_state,
    daily_ips, daily_traffic_bytes, last_check_date,
    \* local of main_loop
    last_traffic,
    \* the host
    today, now, iptables, tc, shutdown_log, shutdown_calls,
    \* observation of the run
    effects,             \* external calls made by the last step, in order
    called,              \* kinds of external call made so far
    seen,                \* addresses returned by get_active_ips since the last reset
    rate_hist,           \* "rate > TRIGGER_SPEED" of the ticks judged in NORMAL
    throttled_ticks,     \* while THROTTLED: ticks completed since the entering one
    unit_ticks,          \* while THROTTLED: each of those ticks took one second
    limit_calls,         \* calls of init_iptables so far
    failed_read,         \* after an iteration whose read of the counters failed
                         \* following a good one: <<total - sample>>, the total and
                         \* the sample being those before it; the iteration after
                         \* it appends its sample if that one is good
    reason               \* which breaker called shutdown_server

vars == <<pc, exit_code, euid, punish_end_time, high_load_duration, current_state,
          daily_ips, daily_traffic_bytes, last_check_date, last_traffic,
          today, now, iptables, tc, shutdown_log, shutdown_calls,
          effects, called, seen, rate_hist, throttled_ticks, unit_ticks,
          limit_calls, failed_read, reason>>

fields == <<punish_end_time, high_load_duration, current_state,
            daily_ips, daily_traffic_bytes, last_check_date>>
host == <<iptables, tc, shutdown_log, shutdown_calls>>
history == <<seen, rate_hist, throttled_ticks, unit_ticks, reason, failed_read>>
\* what only Startup changes besides the program's own state
once == <<limit_calls>>

\* ---------------------------------------------------------------- helpers
Max(a, b) == IF a >= b THEN a ELSE b

\* iptables -D: removes one instance of the rule; fails (swallowed) if none
IptablesDelete(n) == IF n > 0 THEN n - 1 ELSE n
\* iptables -A: appends one instance of the rule
IptablesAppend(n) == n + 1
\* the failed removal abandoning the call (its error not swallowed)
init_iptables_abort(n) == IF n = 0 THEN n ELSE IptablesAppend(IptablesDelete(n))

\* init_iptables: remove the rule, then add it
init_iptables(n) == IptablesAppend(IptablesDelete(n))

\* tc qdisc del dev <if> root: removes the root qdisc; fails (swallowed) if none
TcDel(qdisc) == NoQdisc
\* tc qdisc add dev <if> root tbf rate <speed>mbit: fails (swallowed) if one exists
TcAdd(qdisc, speed_mbit) == IF qdisc = NoQdisc THEN {speed_mbit} ELSE qdisc
\* the add without the delete before it
set_tc_speed_nodel(qdisc, speed_mbit) == TcAdd(qdisc, speed_mbit)

set_tc_speed(qdisc, speed_mbit) == TcAdd(TcDel(qdisc), speed_mbit)

\* (diff_traffic * 8) / (1024 * 1024), diff in units of BytesPerUnit
current_speed_mbps(diff_traffic) ==
    diff_traffic * ((8 * BytesPerUnit) \div (1024 * 1024))

\* the comparison written >= instead of >
TrafficExceeded_inclusive(bytes) == bytes >= MAX_DAILY_TRAFFIC * UnitsPerGB

\* daily_gb > MAX_DAILY_TRAFFIC, with daily_gb = bytes / 1024^3
TrafficExceeded(bytes) == bytes > MAX_DAILY_TRAFFIC * UnitsPerGB

\* only the first address of the list is recorded
AddAll_first(ips, active_ips) ==
    IF active_ips = <<>> THEN ips ELSE ips \cup {Head(active_ips)}

\* for ip in active_ips: self.daily_ips.add(ip)
RECURSIVE AddAll(_, _)
AddAll(ips, active_ips) ==
    IF active_ips = <<>> THEN ips
    ELSE AddAll(ips \cup {Head(active_ips)}, Tail(active_ips))

\* the comparison written >= instead of >
IpsExceeded_inclusive(ips) == Cardinality(ips) >= MAX_DAILY_UNIQUE_IPS

\* len(self.daily_ips) > MAX_DAILY_UNIQUE_IPS
IpsExceeded(ips) == Cardinality(ips) > MAX_DAILY_UNIQUE_IPS

Range(s) == {s[i] : i \in 1..Len(s)}

\* the last n elements of s
LastN(s, n) == IF Len(s) <= n THEN s ELSE SubSeq(s, Len(s) - n + 1, Len(s))

\* ---------------------------------------------------------------- initial state
Init ==
    /\ pc = "init"
    /\ exit_code = 0
    /\ euid \in {0, 1000}
    /\ punish_end_time = 0
    /\ high_load_duration = 0
    /\ current_state = "NORMAL"
    /\ daily_ips = {}
    /\ daily_traffic_bytes = 0
    /\ last_check_date = 0
    /\ last_traffic = 0
    /\ today = 0
    /\ now = 0
    /\ iptables \in {0, 1}
    /\ tc \in {NoQdisc, {THROTTLE_SPEED_LIMIT}}
    /\ shutdown_log = 0
    /\ shutdown_calls = 0
    /\ effects = <<>>
    /\ called = {}
    /\ seen = {}
    /\ rate_hist = <<>>
    /\ throttled_ticks = 0
    /\ unit_ticks = TRUE
    /\ limit_calls = 0
    /\ failed_read = <<>>
    /\ reason = "none"

\* ---------------------------------------------------------------- steps of the program
\* one external call, as recorded in effects
Eff(c, a) == [cmd |-> c, arg |-> a]

Kinds(effs) == {effs[i].cmd : i \in 1..Len(effs)}

TcEffects(speed_mbit) == <<Eff("tc del", 0), Eff("tc add", speed_mbit)>>

\* the comparison written >= instead of >
Overloaded_inclusive(speed) == speed >= TRIGGER_SPEED

\* current_speed_mbps > TRIGGER_SPEED
Overloaded(speed) == speed > TRIGGER_SPEED

\* the comparison written > instead of >=
ShouldPunish_late(duration) == duration > TRIGGER_DURATION

\* self.high_load_duration >= TRIGGER_DURATION
ShouldPunish(duration) == duration >= TRIGGER_DURATION

\* the comparison written < instead of <=
PunishOver_late(end_time, t) == end_time - t < 0

\* remaining = self.punish_end_time - now; remaining <= 0
PunishOver(end_time, t) == end_time - t <= 0

\* a negative delta contributing nothing
Accumulate_clamped(total, diff_traffic) == total + Max(diff_traffic, 0)

\* self.daily_traffic_bytes += diff_traffic
Accumulate(total, diff_traffic) == total + diff_traffic

\* the privilege check left out
Privileged_any(uid) == TRUE

\* os.geteuid() != 0 is the fatal case
Privileged(uid) == uid = 0

\* ServerGuardian.__init__, called from __main__
Construct ==
    /\ pc = "init"
    /\ punish_end_time' = 0
    /\ high_load_duration' = 0
    /\ current_state' = "NORMAL"
    /\ daily_ips' = {}
    /\ daily_traffic_bytes' = 0
    /\ last_check_date' = today
    /\ IF ~Privileged(euid)
       THEN pc' = "exited" /\ exit_code' = 1
       ELSE pc' = "constructed" /\ UNCHANGED exit_code
    /\ effects' = <<>>
    /\ UNCHANGED <<euid, last_traffic, today, now, host, called, history, once>>

\* the baseline left at zero instead of the first sample
Baseline_zero(current_traffic) == 0

\* line 136: last_traffic = self.get_current_traffic()
Baseline(current_traffic) == current_traffic

\* main_loop up to the loop: init_iptables, set_tc_speed, the baseline sample
Startup ==
    /\ pc = "constructed"
    /\ iptables' = init_iptables(iptables)
    /\ limit_calls' = limit_calls + 1
    /\ tc' = set_tc_speed(tc, MAX_SPEED_LIMIT)
    /\ \E current_traffic \in Baselines :
          /\ last_traffic' = Baseline(current_traffic)
          /\ effects' = <<Eff("iptables -D", MAX_CONCURRENT_IPS),
                          Eff("iptables -A", MAX_CONCURRENT_IPS)>>
                        \o TcEffects(MAX_SPEED_LIMIT)
                        \o <<Eff("read", current_traffic)>>
    /\ called' = called \cup Kinds(effects')
    /\ pc' = "top"
    /\ UNCHANGED <<exit_code, euid, fields, today, now, shutdown_log, shutdown_calls,
                   history>>

\* check_daily_reset, the first statement of an iteration
CheckDailyReset ==
    /\ pc = "top"
    /\ IF today # last_check_date
       THEN /\ daily_ips' = {}
            /\ daily_traffic_bytes' = 0
            /\ last_check_date' = today
            /\ seen' = {}
            /\ failed_read' = <<>>
       ELSE /\ UNCHANGED <<daily_ips, daily_traffic_bytes, last_check_date, seen>>
            /\ failed_read' = IF Len(failed_read) = 1 THEN failed_read ELSE <<>>
    /\ effects' = <<>>
    /\ pc' = "sleep"
    /\ UNCHANGED <<exit_code, euid, punish_end_time, high_load_duration, current_state,
                   last_traffic, today, now, host, called, rate_hist,
                   throttled_ticks, unit_ticks, reason, once>>

\* The state one iteration reads and writes, as a record: the steps of the
\* iteration below are applied to it in the order of the source.
Self ==
    [pc |-> pc, exit_code |-> exit_code,
     punish_end_time |-> punish_end_time, high_load_duration |-> high_load_duration,
     current_state |-> current_state, daily_ips |-> daily_ips,
     daily_traffic_bytes |-> daily_traffic_bytes, last_traffic |-> last_traffic,
     tc |-> tc, shutdown_log |-> shutdown_log, shutdown_calls |-> shutdown_calls,
     effects |-> <<>>, seen |-> seen, rate_hist |-> rate_hist,
     throttled_ticks |-> throttled_ticks, unit_ticks |-> unit_ticks,
     failed_read |-> failed_read, reason |-> reason]

\* shutdown_server returning to its caller (no sys.exit)
Running_always(st) == TRUE

\* sys.exit raises SystemExit, which nothing in the loop catches: the statements
\* after a call of shutdown_server do not run
Running(st) == st.pc # "exited"

\* the shutdown command run before the log line is written
shutdown_server_unlogged(st, why) ==
    [st EXCEPT !.shutdown_log = @ + 1,
               !.shutdown_calls = @ + 1,
               !.effects = @ \o <<Eff("shutdown", 0), Eff("log", 0)>>,
               !.reason = why,
               !.pc = "exited",
               !.exit_code = 0]

\* shutdown_server(reason): log line, shutdown -h now, sys.exit(0)
shutdown_server(st, why) ==
    [st EXCEPT !.shutdown_log = @ + 1,
               !.shutdown_calls = @ + 1,
               !.effects = @ \o <<Eff("log", 0), Eff("shutdown", 0)>>,
               !.reason = why,
               !.pc = "exited",
               !.exit_code = 0]

\* set_tc_speed(speed_mbit) on the record
SetTcSpeed(st, speed_mbit) ==
    [st EXCEPT !.tc = set_tc_speed(@, speed_mbit),
               !.effects = @ \o TcEffects(speed_mbit)]

\* lines 146-152: sample, delta, daily total
SampleTraffic(st, current_traffic) ==
    [st EXCEPT !.effects = @ \o <<Eff("read", current_traffic)>>,
               !.daily_traffic_bytes =
                   Accumulate(@, current_traffic - st.last_traffic),
               !.last_traffic = current_traffic,
               !.failed_read =
                   IF current_traffic = 0 /\ st.last_traffic > 0
                   THEN <<st.daily_traffic_bytes - st.last_traffic>>
                   ELSE IF Len(@) = 1 /\ current_traffic > 0
                        THEN Append(@, current_traffic)
                        ELSE <<>>]

\* lines 157-160: the daily traffic breaker
CheckTraffic(st) ==
    IF TrafficExceeded(st.daily_traffic_bytes)
    THEN shutdown_server(st, "traffic")
    ELSE st

\* get_active_ips: the addresses netstat lists, or [] on any exception. The bare
\* except catches KeyboardInterrupt as well: an interrupt delivered while the
\* listing runs (sigint) is swallowed there and the caller goes on with [].
get_active_ips(listing, sigint) == IF sigint THEN <<>> ELSE listing

\* lines 162-168: the active addresses and the daily address breaker
CheckIps(st, listing, sigint) ==
    IF ~Running(st) THEN st
    ELSE LET active_ips == get_active_ips(listing, sigint)
             a == [st EXCEPT !.effects = @ \o <<Eff("netstat", 0)>> \o
                                 (IF sigint THEN <<Eff("sigint", 0)>> ELSE <<>>),
                             !.daily_ips = AddAll(@, active_ips),
                             !.seen = @ \cup Range(active_ips)]
         IN IF IpsExceeded(a.daily_ips) THEN shutdown_server(a, "ips") ELSE a

\* the punishment started again by a rate above the trigger
WhilePunished_rearm(st, current_speed, t) ==
    IF Overloaded(current_speed)
    THEN [st EXCEPT !.punish_end_time = t + PUNISH_DURATION]
    ELSE st

\* lines 181-183: THROTTLED with time remaining; the branch is a pass
WhilePunished(st, current_speed, t) == st

\* the overage counter cleared on entering THROTTLED
EnterThrottled_reset(st, t) ==
    [SetTcSpeed(st, THROTTLE_SPEED_LIMIT)
       EXCEPT !.current_state = "THROTTLED",
              !.punish_end_time = t + PUNISH_DURATION,
              !.high_load_duration = 0,
              !.throttled_ticks = 0,
              !.unit_ticks = TRUE]

\* lines 190-194: the transition NORMAL -> THROTTLED; high_load_duration is not
\* assigned here
EnterThrottled(st, t) ==
    [SetTcSpeed(st, THROTTLE_SPEED_LIMIT)
       EXCEPT !.current_state = "THROTTLED",
              !.punish_end_time = t + PUNISH_DURATION,
              !.throttled_ticks = 0,
              !.unit_ticks = TRUE]

\* lines 170-197: the throttle state machine, at time t, dt after the last iteration
Throttle(st, current_speed, t, dt) ==
    IF ~Running(st) THEN st
    ELSE IF st.current_state = "THROTTLED"
    THEN LET c == [st EXCEPT !.throttled_ticks = @ + 1,
                             !.unit_ticks = (@ /\ dt = 1)]
         IN IF PunishOver(st.punish_end_time, t)
            THEN [SetTcSpeed(c, MAX_SPEED_LIMIT)
                    EXCEPT !.current_state = "NORMAL",
                           !.high_load_duration = 0,
                           !.rate_hist = <<>>]
            ELSE WhilePunished(c, current_speed, t)
    ELSE LET h == [st EXCEPT !.rate_hist =
                       LastN(Append(@, current_speed > TRIGGER_SPEED), TRIGGER_DURATION)]
         IN IF Overloaded(current_speed)
            THEN LET c == [h EXCEPT !.high_load_duration = @ + 1]
                 IN IF ShouldPunish(c.high_load_duration)
                    THEN EnterThrottled(c, t)
                    ELSE c
            ELSE [h EXCEPT !.high_load_duration = 0]

\* lines 145-197: the iteration after check_daily_reset
LoopBody(st, current_traffic, listing, sigint, t, dt) ==
    LET sampled == SampleTraffic(st, current_traffic)
        current_speed == current_speed_mbps(current_traffic - st.last_traffic)
        after == Throttle(CheckIps(CheckTraffic(sampled), listing, sigint),
                          current_speed, t, dt)
    IN IF Running(after) THEN [after EXCEPT !.pc = "top"] ELSE after

\* the rest of an iteration: sleep, sample, account, breakers, throttle machine
Tick ==
    /\ pc = "sleep"
    /\ \E dt \in {d \in SleepTimes : now + d <= MaxTime},
          current_traffic \in Readings :
        /\ now' = now + dt
        /\ last_traffic' = current_traffic
        /\ \E netstat \in NetstatRuns :
            \E st \in {LoopBody(Self, current_traffic, netstat[1], netstat[2],
                                 now + dt, dt)} :
              /\ pc' = st.pc
              /\ exit_code' = st.exit_code
              /\ punish_end_time' = st.punish_end_time
              /\ high_load_duration' = st.high_load_duration
              /\ current_state' = st.current_state
              /\ daily_ips' = st.daily_ips
              /\ daily_traffic_bytes' = st.daily_traffic_bytes
              /\ last_traffic' = st.last_traffic
              /\ tc' = st.tc
              /\ shutdown_log' = st.shutdown_log
              /\ shutdown_calls' = st.shutdown_calls
              /\ effects' = st.effects
              /\ called' = called \cup (Kinds(st.effects) \ {"sigint"})
              /\ seen' = st.seen
              /\ rate_hist' = st.rate_hist
              /\ throttled_ticks' = st.throttled_ticks
              /\ unit_ticks' = st.unit_ticks
              /\ reason' = st.reason
              /\ failed_read' = st.failed_read
    /\ UNCHANGED <<euid, last_check_date, today, iptables, once>>

\* the host's calendar date changes, at any moment of the run: in particular
\* before an iteration's check_daily_reset (pc = "top") or during the sleep that
\* follows it (pc = "sleep")
DateChange ==
    /\ pc # "exited"
    /\ today < MaxDays
    /\ today' = today + 1
    /\ UNCHANGED <<pc, exit_code, euid, fields, last_traffic, now, host, effects,
                   called, history, once>>

\* __main__, lines 203-206: a KeyboardInterrupt that reaches the handler, raised
\* at the top of an iteration or during its sleep; the handler prints a line and
\* the script ends, the cleanup of the qdisc being commented out
Interrupt ==
    /\ pc \in {"top", "sleep"}
    /\ pc' = "exited"
    /\ exit_code' = 0
    /\ effects' = <<Eff("sigint", 0)>>
    /\ UNCHANGED <<euid, fields, last_traffic, today, now, host, called, history,
                   once>>

Next == Construct \/ Startup \/ CheckDailyReset \/ Tick \/ DateChange \/ Interrupt

Spec == Init /\ [][Next]_vars

\* The loop keeps ticking: while True has no exit of its own, and each iteration
\* runs check_daily_reset and, after a sleep that returns, the rest of its body.
\* The clock of the model stops at MaxTime; an interrupt or a breaker may end the
\* run at any time.
\* In Spec the steps from "top" to "sleep" are the steps of CheckDailyReset, and
\* the steps that advance the clock are the steps of Tick, which is enabled
\* whenever the clock can advance: the two conditions below are weak fairness of
\* CheckDailyReset and of Tick, written on the variables that tell those steps
\* from the others.
Checking == pc = "top" /\ pc' = "sleep"

Ticking == pc = "sleep" /\ \E dt \in {d \in SleepTimes : now + d <= MaxTime} : now' = now + dt

SpecFair == Spec /\ WF_pc(Checking) /\ WF_now(Ticking)

\* init_iptables on its own: the guardian started again and again on a host whose
\* rule table holds no instance of the connection-limit rule, or one
ApplyConnectionLimit ==
    /\ pc = "init"
    /\ limit_calls < MaxCalls
    /\ iptables' = init_iptables(iptables)
    /\ limit_calls' = limit_calls + 1
    /\ effects' = <<Eff("iptables -D", MAX_CONCURRENT_IPS),
                    Eff("iptables -A", MAX_CONCURRENT_IPS)>>
    /\ called' = called \cup Kinds(effects')
    /\ UNCHANGED <<pc, exit_code, euid, fields, last_traffic, today, now, tc,
                   shutdown_log, shutdown_calls, history>>

SpecLimit == Init /\ [][ApplyConnectionLimit]_vars

\* ---------------------------------------------------------------- properties
\* a step that is the second half of an iteration (sample .. throttle machine)
IsTick == pc = "sleep" /\ pc' # "sleep" /\ "read" \in Kinds(effects')

InLoop == pc \in {"top", "sleep"}

\* length of the run of TRUE at the end of h
RECURSIVE OverRun(_)
OverRun(h) ==
    IF h = <<>> \/ ~h[Len(h)] THEN 0 ELSE 1 + OverRun(SubSeq(h, 1, Len(h) - 1))

Issued(c, a) == Eff(c, a) \in Range(effects)

\* C1: within one day, each tick adds to the daily byte total the tick's delta
\* when the delta is non-negative and nothing when it is negative, so the total
\* is the sum of the non-negative deltas and never decreases.
C1_TotalIsSumOfNonNegativeDeltas ==
    [][IsTick =>
         daily_traffic_bytes'
             = daily_traffic_bytes + Max(last_traffic' - last_traffic, 0)]_vars

\* C2: from NORMAL with the overage counter at zero, the state is THROTTLED after
\* a tick exactly when that tick is the TRIGGER_DURATION-th consecutive tick whose
\* rate exceeds TRIGGER_SPEED: a shorter run followed by a tick that does not
\* exceed leaves the state NORMAL and the throttled ceiling unapplied, and on the
\* tick of the transition set_tc_speed(THROTTLE_SPEED_LIMIT) is called.
C2_ThrottledExactlyOnTickD ==
    (InLoop \/ reason # "none") =>
        /\ current_state = "THROTTLED" <=> OverRun(rate_hist) >= TRIGGER_DURATION
        /\ current_state = "NORMAL" => tc # {THROTTLE_SPEED_LIMIT}
        /\ (current_state = "THROTTLED" /\ throttled_ticks = 0 /\ pc = "top")
               => Issued("tc add", THROTTLE_SPEED_LIMIT) /\ tc = {THROTTLE_SPEED_LIMIT}

C2_Witness ==
    /\ pc = "top"
    /\ current_state = "THROTTLED"
    /\ throttled_ticks = 0
    /\ Len(rate_hist) = TRIGGER_DURATION
    /\ OverRun(rate_hist) = TRIGGER_DURATION

\* C3: with one second per tick, a tick taken in THROTTLED that no breaker ends
\* leaves the state THROTTLED while fewer than PUNISH_DURATION ticks have passed
\* since the entering tick, whatever the rate, and the PUNISH_DURATION-th tick
\* returns to NORMAL, calls set_tc_speed(MAX_SPEED_LIMIT) and leaves the overage
\* counter at zero.
C3_PunishmentLastsExactlyP ==
    [][(IsTick /\ current_state = "THROTTLED" /\ unit_ticks /\ now' = now + 1
            /\ pc' = "top") =>
         IF throttled_ticks + 1 < PUNISH_DURATION
         THEN current_state' = "THROTTLED" /\ tc' = tc
         ELSE /\ throttled_ticks + 1 = PUNISH_DURATION
              /\ current_state' = "NORMAL"
              /\ tc' = {MAX_SPEED_LIMIT}
              /\ Eff("tc add", MAX_SPEED_LIMIT) \in Range(effects')
              /\ high_load_duration' = 0]_vars

C3_Witness ==
    /\ pc = "top"
    /\ current_state = "NORMAL"
    /\ throttled_ticks = PUNISH_DURATION
    /\ unit_ticks
    /\ Issued("tc add", MAX_SPEED_LIMIT)
    /\ high_load_duration = 0

\* C4: the traffic breaker has fired exactly when the daily byte total, with the
\* tick's delta added, is strictly greater than MAX_DAILY_TRAFFIC GB (a total
\* equal to the ceiling does not fire it); when it has fired there is one
\* shutdown log entry and one call of the shutdown command, and there is never
\* more than one.
C4_TrafficBreakerStrict ==
    /\ reason = "traffic" <=> daily_traffic_bytes > DailyCeiling
    /\ reason = "traffic" => shutdown_log = 1 /\ shutdown_calls = 1 /\ pc = "exited"
    /\ shutdown_log <= 1 /\ shutdown_calls <= 1

C4_Witness ==
    /\ reason = "traffic"
    /\ daily_traffic_bytes = DailyCeiling + 1
    /\ shutdown_log = 1
    /\ shutdown_calls = 1

\* C5: within one day the address breaker has fired exactly when the number of
\* distinct addresses returned by the sampler that day is strictly greater than
\* MAX_DAILY_UNIQUE_IPS, and it fires once.
C5_IpBreakerOnFirstExcess ==
    today = 0 =>
        /\ reason = "ips" <=> Cardinality(seen) > MAX_DAILY_UNIQUE_IPS
        /\ reason = "ips" => shutdown_log = 1 /\ shutdown_calls = 1 /\ pc = "exited"

C5_Witness ==
    /\ today = 0
    /\ reason = "ips"
    /\ Cardinality(seen) = MAX_DAILY_UNIQUE_IPS + 1
    /\ shutdown_calls = 1

C7_ResetBeforeAbsorb ==
    [][(IsTick /\ today # last_check_date) =>
         /\ last_check_date' = today
         /\ daily_traffic_bytes' \in {last_traffic' - last_traffic,
                                      Max(last_traffic' - last_traffic, 0)}]_vars

\* C8: the tick on which the traffic breaker fires changes neither the address
\* set nor the throttle state, overage counter, punish_end_time and ceiling, and
\* does not sample the addresses; the tick on which the address breaker fires
\* changes none of the throttle state, overage counter, punish_end_time and
\* ceiling, and the traffic breaker had not been exceeded on it.
C8_ShutdownEndsTheTick ==
    [][/\ (reason = "none" /\ reason' = "traffic") =>
              /\ UNCHANGED <<daily_ips, current_state, high_load_duration,
                             punish_end_time, tc>>
              /\ Eff("netstat", 0) \notin Range(effects')
       /\ (reason = "none" /\ reason' = "ips") =>
              /\ UNCHANGED <<current_state, high_load_duration, punish_end_time, tc>>
              /\ daily_traffic_bytes' <= DailyCeiling]_vars

C8_Witness ==
    /\ reason = "ips"
    /\ current_state = "THROTTLED"
    /\ tc = {THROTTLE_SPEED_LIMIT}
    /\ Issued("netstat", 0)
    /\ Issued("shutdown", 0)

\* C9: a tick whose counter read fails (sample 0 after a positive sample) leaves
\* the daily byte total as it was, does not fire the traffic breaker and does not
\* count as an overage tick.
C9_FailedReadIsNoObservation ==
    [][(IsTick /\ last_traffic > 0 /\ last_traffic' = 0) =>
         /\ daily_traffic_bytes' = daily_traffic_bytes
         /\ reason' # "traffic"
         /\ high_load_duration' <= high_load_duration]_vars

\* C10: a process started without root privilege exits with status 1 having made
\* no external call (no iptables, tc, counter read or netstat) and never reaches
\* the loop.
C10_NoPrivilegeNoEffect ==
    euid # 0 =>
        /\ pc \in {"init", "exited"}
        /\ pc = "exited" => exit_code = 1
        /\ called = {}
        /\ effects = <<>>

C10_Witness ==
    /\ euid # 0
    /\ pc = "exited"
    /\ exit_code = 1
    /\ called = {}

\* C11: from a rule table with no instance of the connection-limit rule or with
\* one, the table holds exactly one instance after every call of init_iptables,
\* however many calls were made; the removal failing on an empty table does not
\* keep the rule from being added.
C11_ConnectionLimitIdempotent ==
    limit_calls >= 1 => iptables = 1 /\ Issued("iptables -A", MAX_CONCURRENT_IPS)

C11_Witness ==
    /\ limit_calls = 2
    /\ iptables = 1
    /\ euid = 0

\* the commands that install or remove an enforcement rule, or shut down
Enforcement == {"iptables -D", "iptables -A", "tc del", "tc add", "shutdown"}

\* C12: an interrupt delivered at any point of the control loop ends the process,
\* no enforcement command is invoked, and the connection-limit rule and the
\* shaping rule stay as they were at the moment of the interrupt.
C12_InterruptEndsWithoutEnforcement ==
    [][pc' # pc /\ "sigint" \in Kinds(effects')
         => /\ pc' = "exited"
            /\ Kinds(effects') \cap Enforcement = {}
            /\ UNCHANGED <<iptables, tc>>]_vars

\* C13: a tick taken in THROTTLED before the punishment has expired, and that no
\* breaker ends, leaves punish_end_time, the overage counter and the installed
\* ceiling as they were and issues no enforcement command, whatever the rate.
C13_PunishedTickChangesNothing ==
    [][(IsTick /\ current_state = "THROTTLED" /\ now' < punish_end_time
            /\ reason' = "none") =>
         /\ current_state' = "THROTTLED"
         /\ UNCHANGED <<punish_end_time, high_load_duration, tc, iptables>>
         /\ Kinds(effects') \cap Enforcement = {}]_vars

C13_Witness ==
    /\ pc = "top"
    /\ current_state = "THROTTLED"
    /\ throttled_ticks >= 1
    /\ now < punish_end_time
    /\ Kinds(effects) = {"read", "netstat"}

\* C14 as claimed: the tick that goes from NORMAL to THROTTLED resets the overage
\* counter to zero, so that the counter is zero in every THROTTLED state.
C14_CounterZeroWhileThrottled ==
    (InLoop /\ current_state = "THROTTLED") => high_load_duration = 0

\* C14 amended: the tick that goes from NORMAL to THROTTLED leaves the overage
\* counter at TRIGGER_DURATION, the value that caused the transition; the counter
\* keeps that value in every THROTTLED state and is reset to zero by the tick
\* that returns to NORMAL.
C14_CounterHeldWhileThrottled ==
    [][pc' \in {"top", "sleep"} =>
         /\ current_state' = "THROTTLED" => high_load_duration' = TRIGGER_DURATION
         /\ (current_state = "THROTTLED" /\ current_state' = "NORMAL")
                => high_load_duration' = 0]_vars

C14_Witness ==
    /\ pc = "top"
    /\ current_state = "THROTTLED"
    /\ throttled_ticks = 1
    /\ high_load_duration = TRIGGER_DURATION

\* C15: in NORMAL the overage counter is the number of ticks, counted back from
\* the last one and no further than the tick that returned to NORMAL, whose rate
\* was strictly above TRIGGER_SPEED without a break: a tick at or below the
\* threshold leaves it at zero, and it is always less than TRIGGER_DURATION.
C15_CounterIsTrailingOverRun ==
    current_state = "NORMAL" =>
        /\ high_load_duration = OverRun(rate_hist)
        /\ high_load_duration < TRIGGER_DURATION
        /\ (rate_hist # <<>> /\ ~rate_hist[Len(rate_hist)]) => high_load_duration = 0

C15_Witness ==
    /\ pc = "top"
    /\ current_state = "NORMAL"
    /\ Len(rate_hist) >= 2
    /\ rate_hist[Len(rate_hist) - 1]
    /\ ~rate_hist[Len(rate_hist)]
    /\ high_load_duration = 0

\* in effs a call of kind a comes before a call of kind b
Before(effs, a, b) ==
    \E i, j \in 1..Len(effs) : i < j /\ effs[i].cmd = a /\ effs[j].cmd = b

\* C16: startup adds the connection-limit rule, then installs the normal ceiling,
\* then takes the baseline sample, all before the first tick; the first tick adds
\* to the daily total its sample minus that baseline, so that what the interface
\* had counted before startup is not part of the total.
C16_StartupOrderAndBaseline ==
    [][/\ (pc = "constructed" /\ pc' = "top") =>
            /\ Before(effects', "iptables -A", "tc add")
            /\ Before(effects', "tc add", "read")
            /\ iptables' = 1 /\ tc' = {MAX_SPEED_LIMIT}
            /\ last_traffic' = effects'[Len(effects')].arg
            /\ daily_traffic_bytes' = 0
            /\ "netstat" \notin called'
       /\ (IsTick /\ "netstat" \notin called) =>
            /\ {"iptables -A", "tc add", "read"} \subseteq called
            /\ daily_traffic_bytes' = last_traffic' - last_traffic]_vars

C16_Witness ==
    /\ pc = "top"
    /\ now = 1
    /\ "netstat" \in called
    /\ last_traffic = 2 * OverStep
    /\ daily_traffic_bytes = OverStep

\* C17: the tick on which a breaker fires writes the reason to the shutdown log
\* before it runs the shutdown command, and the process has exited after it; no
\* step of the program follows: no further tick, no second shutdown, no change of
\* the installed rules.
C17_ShutdownIsLoggedAndTerminal ==
    [][/\ (reason = "none" /\ reason' # "none") =>
            /\ Before(effects', "log", "shutdown")
            /\ ~Before(effects', "shutdown", "log")
            /\ shutdown_log' = 1 /\ shutdown_calls' = 1
            /\ pc' = "exited" /\ exit_code' = 0
            /\ UNCHANGED <<iptables, tc>>
       /\ reason # "none" => UNCHANGED vars]_vars

C17_Witness ==
    /\ reason = "ips"
    /\ pc = "exited"
    /\ Before(effects, "netstat", "log")
    /\ Before(effects, "log", "shutdown")
    /\ shutdown_calls = 1

\* C18: from startup on, at the end of every tick the installed ceiling is
\* MAX_SPEED_LIMIT when the state is NORMAL and THROTTLE_SPEED_LIMIT when it is
\* THROTTLED; set_tc_speed is called at startup and on the ticks that change the
\* state, with the limit of the new state, and on no other tick.
C18_CeilingFollowsState ==
    [][/\ pc' \in {"top", "sleep"} =>
            tc' = {IF current_state' = "NORMAL" THEN MAX_SPEED_LIMIT
                                               ELSE THROTTLE_SPEED_LIMIT}
       /\ IsTick =>
            /\ "tc add" \in Kinds(effects') <=> current_state' # current_state
            /\ \A i \in 1..Len(effects') :
                  effects'[i].cmd = "tc add" =>
                      effects'[i].arg = IF current_state' = "NORMAL"
                                        THEN MAX_SPEED_LIMIT
                                        ELSE THROTTLE_SPEED_LIMIT
       /\ ("tc add" \in Kinds(effects') /\ effects' # effects) =>
            (pc = "constructed" \/ IsTick)]_vars

C18_Witness ==
    /\ pc = "sleep"
    /\ current_state = "THROTTLED"
    /\ tc = {THROTTLE_SPEED_LIMIT}
    /\ throttled_ticks = 0

\* C19: throttling is never permanent. While the loop keeps ticking and time
\* advances, every THROTTLED state whose punishment ends within the time explored
\* is followed by a NORMAL state with MAX_SPEED_LIMIT installed, whatever rates
\* are sampled, unless a breaker or an interrupt ends the process first.
C19_ThrottlingEnds ==
    (current_state = "THROTTLED" /\ InLoop /\ punish_end_time <= MaxTime)
        ~> ((current_state = "NORMAL" /\ tc = {MAX_SPEED_LIMIT}) \/ pc = "exited")

C19_Witness ==
    /\ pc = "top"
    /\ current_state = "NORMAL"
    /\ throttled_ticks >= 1
    /\ ~unit_ticks
    /\ tc = {MAX_SPEED_LIMIT}
    /\ now >= punish_end_time

====
